---- MODULE Spec2Model ----
(***************************************************************************)
(* Document service (src/app/main.py): cache-aside reads and writes in     *)
(* front of a durable store, and the health report.                        *)
(*                                                                         *)
(* The handlers are "async def" functions that never await: inside one     *)
(* service process the event loop runs each handler to completion, so the  *)
(* requests of one process are served one after another (Spec).  The       *)
(* backends are modelled by their contract: a storage put that reports a   *)
(* failure stored nothing, a storage get sees the latest put, and every    *)
(* backend call may fail.                                                  *)
(***************************************************************************)
EXTENDS Integers, FiniteSets, Sequences, TLC

\* ------------------------------------------------------------------ bounds

NumIds == 2

Ids == 1..NumIds

\* Service processes; Spec runs the requests of "p1".
Procs == {"p1", "p2"}

\* ------------------------------------------------------- program constants

MAX_CONTENT_SIZE == 102400

CACHE_TTL == 3600

\* ---------------------------------------------------------------- contents

\* A text: txt names it, chars is len(str), bytes is its UTF-8 size.
Doc(t, c, b) == [txt |-> t, chars |-> c, bytes |-> b]

\* Python's None where a text is expected.
None == Doc("<None>", 0, 0)

Empty == Doc("", 0, 0)

Hello == Doc("hello", 5, 5)

World == Doc("world", 5, 5)

\* n ASCII characters.
Ascii(n) == Doc("x..", n, n)

\* n two-byte characters.
Wide(n) == Doc("ww..", n, 2 * n)

\* Request bodies of the workload: two valid texts, the empty one, one too long.
WorkloadContents == {Hello, World, Empty, Ascii(MAX_CONTENT_SIZE + 1)}

\* Request bodies around the size limit.
BoundaryContents ==
    {Empty, Ascii(1), Ascii(MAX_CONTENT_SIZE - 1), Ascii(MAX_CONTENT_SIZE),
     Ascii(MAX_CONTENT_SIZE + 1), Wide(MAX_CONTENT_SIZE \div 2),
     Wide(MAX_CONTENT_SIZE \div 2 + 1), Wide(MAX_CONTENT_SIZE),
     Wide(MAX_CONTENT_SIZE + 1)}

\* Python truthiness of an Optional[str].
Truthy(c) == c # None /\ c.chars > 0

\* What one backend call does: it answers, or it raises.
CallOutcomes == {"ok", "error"}

\* A cache entry: the text and the TTL given to setex.
NoEntry == [doc |-> None, ttl |-> 0]

\* An entry that loses its text.
Entry_Blank(c, ttl) == [doc |-> Empty, ttl |-> ttl]

\* An entry set without a TTL.
Entry_NoTTL(c, ttl) == [doc |-> c, ttl |-> 0]

Entry(c, ttl) == [doc |-> c, ttl |-> ttl]

\* ---------------------------------------------------------- request model

\* DocumentRequest: Field(min_length=1, max_length=MAX_CONTENT_SIZE) on a str
\* counts characters; FastAPI answers a body that fails it with 422 before
\* the handler runs.
DocumentRequestValid(c) == c.chars >= 1 /\ c.chars <= MAX_CONTENT_SIZE

\* ---------------------------------------------------------------- storage

\* The client handle of the selected backend (lines 51-62).
s3_client(t) == IF t = "s3" THEN "client" ELSE "None"

dynamodb(t) == IF t = "dynamodb" THEN "resource" ELSE "None"

\* Whether store_document issues a backend put at all.
StoreIssuesPut(t) ==
    \/ t = "s3" /\ s3_client(t) # "None"
    \/ t = "dynamodb" /\ dynamodb(t) # "None"

\* store_document that reports success although the backend put raised.
store_document_SwallowsError(t, out) == t \in {"s3", "dynamodb"}

\* store_document's return value; out is the outcome of the backend put.
store_document(t, out) ==
    IF t = "s3"
    THEN IF s3_client(t) = "None" THEN FALSE ELSE out = "ok"
    ELSE IF t = "dynamodb"
    THEN IF dynamodb(t) = "None" THEN FALSE ELSE out = "ok"
    ELSE FALSE

\* A put that keeps the record already stored under the key.
StorageAfterStore_FirstWriteWins(st, t, id, c, out) ==
    IF StoreIssuesPut(t) /\ out = "ok" /\ st[id] = None
    THEN [st EXCEPT ![id] = c] ELSE st

\* The durable store after store_document(id, c): one record per id, overwritten.
StorageAfterStore(st, t, id, c, out) ==
    IF StoreIssuesPut(t) /\ out = "ok" THEN [st EXCEPT ![id] = c] ELSE st

\* Whether retrieve_document issues a backend get at all.
RetrieveIssuesGet(t) ==
    \/ t = "s3" /\ s3_client(t) # "None"
    \/ t = "dynamodb" /\ dynamodb(t) # "None"

\* retrieve_document that answers a missing record with an empty text.
retrieve_document_EmptyDefault(t, item, out) ==
    IF t \in {"s3", "dynamodb"} /\ out = "ok"
    THEN IF item = None THEN Empty ELSE item
    ELSE None

\* retrieve_document that answers a failed backend get with an empty text.
retrieve_document_EmptyOnError(t, item, out) ==
    IF t \in {"s3", "dynamodb"}
    THEN IF out = "ok" THEN item ELSE Empty
    ELSE None

\* retrieve_document's return value; item is the stored record (None if there
\* is none), out the outcome of the backend get.  A missing key (NoSuchKey,
\* no Item) and every exception both end in None.
retrieve_document(t, item, out) ==
    IF t = "s3"
    THEN IF s3_client(t) = "None" THEN None
         ELSE IF out = "ok" THEN item ELSE None
    ELSE IF t = "dynamodb"
    THEN IF dynamodb(t) = "None" THEN None
         ELSE IF out = "ok" THEN item ELSE None
    ELSE None

\* ------------------------------------------------------------------ cache

\* An exception that escapes a helper into the handler's "except Exception".
Raised == Doc("<raised>", 0, 0)

\* get_from_cache that lets the cache error escape.
get_from_cache_Raises(client, e, out) ==
    IF client = "None" THEN None
    ELSE IF out = "ok"
    THEN IF Truthy(e.doc) THEN e.doc ELSE None
    ELSE Raised

\* get_from_cache that never reports a hit.
get_from_cache_AlwaysMiss(client, e, out) == None

\* get_from_cache's return value; e is the entry under "document:<id>".
get_from_cache(client, e, out) ==
    IF client = "None" THEN None
    ELSE IF out = "ok"
    THEN IF Truthy(e.doc) THEN e.doc ELSE None
    ELSE None

\* set_in_cache that lets the cache error escape.
set_in_cache_Raises(client, out) ==
    IF client = "None" THEN "False"
    ELSE IF out = "ok" THEN "True" ELSE "raised"

\* set_in_cache's return value.
set_in_cache(client, out) ==
    IF client = "None" THEN "False"
    ELSE IF out = "ok" THEN "True" ELSE "False"

\* set_in_cache that never reaches the cache.
CacheAfterSet_Dropped(ch, client, id, c, ttl, out) == ch

\* set_in_cache that writes under another document's key.
CacheAfterSet_WrongKey(ch, client, id, c, ttl, out) ==
    IF client # "None" /\ out = "ok"
    THEN [ch EXCEPT ![(id % NumIds) + 1] = Entry(c, ttl)] ELSE ch

\* The cache after set_in_cache(id, c, ttl).
CacheAfterSet(ch, client, id, c, ttl, out) ==
    IF client # "None" /\ out = "ok" THEN [ch EXCEPT ![id] = Entry(c, ttl)] ELSE ch

\* invalidate_cache that lets the cache error escape.
invalidate_cache_Raises(client, out) ==
    IF client # "None" /\ out = "error" THEN "raised" ELSE "None"

\* invalidate_cache returns None whatever the delete did.
invalidate_cache(client, out) == "None"

\* invalidate_cache that deletes nothing.
CacheAfterInvalidate_Skipped(ch, client, id, out) == ch

\* invalidate_cache that deletes another document's key.
CacheAfterInvalidate_WrongKey(ch, client, id, out) ==
    IF client # "None" /\ out = "ok"
    THEN [ch EXCEPT ![(id % NumIds) + 1] = NoEntry] ELSE ch

\* The cache after invalidate_cache(id).
CacheAfterInvalidate(ch, client, id, out) ==
    IF client # "None" /\ out = "ok" THEN [ch EXCEPT ![id] = NoEntry] ELSE ch

\* ----------------------------------------------------------------- health

StorageStatuses == {"ok", "error", "unavailable", "not_implemented", "unknown"}

CacheStatuses == {"ok", "error", "unavailable", "disabled"}

check_storage_health(t, probe) ==
    IF t = "s3"
    THEN IF s3_client(t) = "None" THEN "unavailable"
         ELSE IF probe = "ok" THEN "ok" ELSE "error"
    ELSE IF t = "dynamodb"
    THEN IF dynamodb(t) = "None" THEN "unavailable"
         ELSE IF probe = "ok" THEN "ok" ELSE "error"
    ELSE IF t = "rds" THEN "not_implemented"
    ELSE "unknown"

\* _check_cache_health that pings without looking for the handle.
check_cache_health_PingsAnyway(enabled, client, ping) ==
    IF ~enabled THEN "disabled"
    ELSE IF ping = "ok" THEN "ok" ELSE "error"

\* _check_cache_health's return value.
check_cache_health(enabled, client, ping) ==
    IF ~enabled THEN "disabled"
    ELSE IF client = "None" THEN "unavailable"
    ELSE IF ping = "ok" THEN "ok" ELSE "error"

\* The verdict taken from storage alone.
Overall_IgnoresCache(storage_status, cache_status) ==
    IF storage_status = "ok" THEN "healthy" ELSE "unhealthy"

\* Line 288.
Overall(storage_status, cache_status) ==
    IF storage_status = "ok" /\ cache_status \in {"ok", "disabled"}
    THEN "healthy" ELSE "unhealthy"

\* Line 298: the local status_code.
HealthStatusCode(overall) == IF overall = "healthy" THEN 200 ELSE 503

\* Line 299: both branches return the plain dict, which FastAPI sends with 200.
HealthHttpCode(status_code) == 200

\* ------------------------------------------------------------------ state

VARIABLES
    STORAGE_TYPE,   \* "s3", "dynamodb" or "rds" (any other value stops the start)
    CACHE_ENABLED,  \* the CACHE_ENABLED setting
    cache_client,   \* "redis", or "None" when disabled or the startup ping failed
    storage,        \* the durable store: id -> text, None where there is no record
    cache,          \* the cache server: id -> entry under "document:<id>"
    req,            \* per process: the request in flight and its position
    resp,           \* per process: the response of its last completed request
    watch,          \* the id whose history mon follows
    mon,            \* history of the requests on watch
    putOk,          \* the ids some put_document has answered 200 for
    cacheWorked,    \* whether any cache call has succeeded so far
    recording,      \* whether written is kept in this specification
    written         \* the texts a storage put has stored under watch

config == <<STORAGE_TYPE, CACHE_ENABLED, cache_client, watch, recording>>

vars == <<STORAGE_TYPE, CACHE_ENABLED, cache_client, storage, cache, req, resp,
          watch, mon, putOk, cacheWorked, recording, written>>

\* The backend calls one request has issued, each with its outcome.
NoLog == [sput |-> <<>>, sget |-> <<>>, cget |-> <<>>, cset |-> <<>>, cdel |-> <<>>]

IdleReq == [pc |-> "idle", op |-> "", id |-> 0, content |-> None, got |-> None,
            log |-> NoLog]

NoResp == [op |-> "", id |-> 0, content |-> None, code |-> 0, doc |-> None,
           size |-> 0, status |-> "", storage |-> "", cache |-> "",
           status_code |-> 0, log |-> NoLog, stage |-> 0, entryAfter |-> NoEntry,
           late |-> FALSE]

\* History of watch.  c: the text of the last put that answered 200, None once
\* a put of another text was attempted; inv: that put's cache delete did not
\* fail; stage: how much of "put C1, get, put C2, get" the latest requests
\* match; clean, clean2: every backend call of the matched requests (of the
\* last put alone) was issued and succeeded.
NoMon == [c |-> None, inv |-> FALSE, stage |-> 0, clean |-> FALSE, clean2 |-> FALSE]

Start(rec) ==
    /\ STORAGE_TYPE \in {"s3", "dynamodb", "rds"}
    /\ CACHE_ENABLED \in BOOLEAN
    /\ cache_client \in (IF CACHE_ENABLED THEN {"redis", "None"} ELSE {"None"})
    /\ storage = [i \in Ids |-> None]
    /\ cache = [i \in Ids |-> NoEntry]
    /\ req = [p \in Procs |-> IdleReq]
    /\ resp = [p \in Procs |-> NoResp]
    /\ watch \in Ids
    /\ mon = NoMon
    /\ putOk = {}
    /\ cacheWorked = FALSE
    /\ recording = rec
    /\ written = {}

Init == Start(FALSE)

\* The same start, with the history of stored texts kept.
InitHist == Start(TRUE)

\* ---------------------------------------------------------------- history

ReqClean(r) ==
    IF r.op = "put"
    THEN r.log.sput = <<"ok">> /\ r.log.cdel = <<"ok">>
    ELSE /\ r.log.cget = <<"ok">>
         /\ \/ r.log.sget = <<>> /\ r.code = 200
            \/ r.log.sget = <<"ok">> /\ r.log.cset = <<"ok">>

MonAfter(m, r) ==
    IF r.op = "put"
    THEN IF r.code = 200
         THEN LET same == m.c = r.content
                  third == m.stage = 2 /\ ~same
                  invok == r.log.cdel # <<"error">>
              IN [c |-> r.content,
                  inv |-> IF same THEN m.inv \/ invok ELSE invok,
                  stage |-> IF third THEN 3 ELSE 1,
                  clean |-> IF third THEN m.clean /\ ReqClean(r) ELSE ReqClean(r),
                  clean2 |-> ReqClean(r)]
         ELSE IF m.c = r.content
         THEN [m EXCEPT !.stage = 0, !.clean = FALSE, !.clean2 = FALSE]
         ELSE NoMon
    ELSE LET cl == IF m.stage = 1 THEN m.clean /\ ReqClean(r)
                   ELSE IF m.stage = 3 THEN m.clean2 /\ ReqClean(r)
                   ELSE FALSE
         IN [m EXCEPT !.stage = IF m.stage \in {1, 3} THEN 2 ELSE 0,
                      !.clean = cl, !.clean2 = cl]

\* Process p answers r: the handler returns or raises HTTPException.
Respond(p, r) ==
    /\ resp' = [resp EXCEPT ![p] =
                   IF r.id = watch THEN [r EXCEPT !.stage = mon.stage] ELSE r]
    /\ req' = [req EXCEPT ![p] = IdleReq]
    /\ mon' = IF r.op \in {"put", "get"} /\ r.id = watch THEN MonAfter(mon, r) ELSE mon
    /\ putOk' = IF r.op = "put" /\ r.code = 200 THEN putOk \cup {r.id} ELSE putOk
    /\ UNCHANGED written

\* Process p goes on to the next call of its handler.
Continue(p, q) ==
    /\ req' = [req EXCEPT ![p] = q]
    /\ resp' = [resp EXCEPT ![p] = NoResp]
    /\ written' = IF /\ recording /\ q.id = watch
                     /\ q.pc = "invalidate" /\ q.log.sput = <<"ok">>
                  THEN written \cup {q.content} ELSE written
    /\ UNCHANGED <<mon, putOk>>

\* ------------------------------------------------------------ put_document

\* PUT /documents/{id}: body validation, then lines 310-315.
PutRequest(p, ids, contents) ==
    \E id \in ids, c \in contents :
        /\ req[p].pc = "idle"
        /\ LET r == [NoResp EXCEPT !.op = "put", !.id = id, !.content = c,
                                   !.entryAfter = cache[id]]
           IN IF ~DocumentRequestValid(c)
              THEN Respond(p, [r EXCEPT !.code = 422])
              ELSE IF c.chars > MAX_CONTENT_SIZE
              THEN Respond(p, [r EXCEPT !.code = 400])
              ELSE Continue(p, [IdleReq EXCEPT !.pc = "store", !.op = "put",
                                               !.id = id, !.content = c])
        /\ UNCHANGED <<config, storage, cache, cacheWorked>>

\* A put_document that calls store_document a second time when the first
\* call failed.
PutStore_Retries(p) ==
    \E out \in CallOutcomes :
        LET q == req[p]
            log == [q.log EXCEPT !.sput =
                       IF StoreIssuesPut(STORAGE_TYPE) THEN Append(@, out) ELSE @]
        IN /\ q.pc = "store"
           /\ storage' = StorageAfterStore(storage, STORAGE_TYPE, q.id, q.content, out)
           /\ IF store_document(STORAGE_TYPE, out)
              THEN Continue(p, [q EXCEPT !.pc = "invalidate", !.log = log])
              ELSE IF Len(q.log.sput) = 0 /\ StoreIssuesPut(STORAGE_TYPE)
              THEN Continue(p, [q EXCEPT !.log = log])
              ELSE Respond(p, [NoResp EXCEPT !.op = "put", !.id = q.id,
                                  !.content = q.content, !.code = 500,
                                  !.log = log, !.entryAfter = cache[q.id]])
           /\ UNCHANGED <<config, cache, cacheWorked>>

\* Lines 317-322: store_document.
PutStore(p) ==
    \E out \in CallOutcomes :
        LET q == req[p]
            log == [q.log EXCEPT !.sput =
                       IF StoreIssuesPut(STORAGE_TYPE) THEN Append(@, out) ELSE @]
        IN /\ q.pc = "store"
           /\ storage' = StorageAfterStore(storage, STORAGE_TYPE, q.id, q.content, out)
           /\ IF store_document(STORAGE_TYPE, out)
              THEN Continue(p, [q EXCEPT !.pc = "invalidate", !.log = log])
              ELSE Respond(p, [NoResp EXCEPT !.op = "put", !.id = q.id,
                                  !.content = q.content, !.code = 500,
                                  !.log = log, !.entryAfter = cache[q.id]])
           /\ UNCHANGED <<config, cache, cacheWorked>>

\* Lines 324-333: invalidate_cache, then the "stored" answer.
PutInvalidate(p) ==
    \E out \in CallOutcomes :
        LET q == req[p]
            issued == cache_client # "None"
            log == [q.log EXCEPT !.cdel = IF issued THEN Append(@, out) ELSE @]
            r == [NoResp EXCEPT !.op = "put", !.id = q.id, !.content = q.content,
                                !.log = log]
        IN /\ q.pc = "invalidate"
           /\ cache' = CacheAfterInvalidate(cache, cache_client, q.id, out)
           /\ cacheWorked' = (cacheWorked \/ (issued /\ out = "ok"))
           /\ IF invalidate_cache(cache_client, out) = "raised"
              THEN Respond(p, [r EXCEPT !.code = 500, !.entryAfter = cache'[q.id]])
              ELSE Respond(p, [r EXCEPT !.code = 200, !.status = "stored",
                                        !.size = q.content.chars,
                                        !.entryAfter = cache'[q.id]])
           /\ UNCHANGED <<config, storage>>

\* ------------------------------------------------------------ get_document

\* GET /documents/{id}, lines 351-358: get_from_cache and the answer on a hit.
GetRequest(p, ids) ==
    \E id \in ids, out \in CallOutcomes :
        LET issued == cache_client # "None"
            log == [NoLog EXCEPT !.cget = IF issued THEN Append(@, out) ELSE @]
            cached_content == get_from_cache(cache_client, cache[id], out)
            r == [NoResp EXCEPT !.op = "get", !.id = id, !.log = log,
                                !.entryAfter = cache[id]]
        IN /\ req[p].pc = "idle"
           /\ cacheWorked' = (cacheWorked \/ (issued /\ out = "ok"))
           /\ IF cached_content = Raised
              THEN Respond(p, [r EXCEPT !.code = 500])
              ELSE IF Truthy(cached_content)
              THEN Respond(p, [r EXCEPT !.code = 200, !.doc = cached_content])
              ELSE Continue(p, [IdleReq EXCEPT !.pc = "retrieve", !.op = "get",
                                               !.id = id, !.log = log])
           /\ UNCHANGED <<config, storage, cache>>

\* Lines 360-365: retrieve_document and the 404.
GetRetrieve(p) ==
    \E out \in CallOutcomes :
        LET q == req[p]
            log == [q.log EXCEPT !.sget =
                       IF RetrieveIssuesGet(STORAGE_TYPE) THEN Append(@, out) ELSE @]
            content == retrieve_document(STORAGE_TYPE, storage[q.id], out)
        IN /\ q.pc = "retrieve"
           /\ IF content = Raised
              THEN Respond(p, [NoResp EXCEPT !.op = "get", !.id = q.id, !.code = 500,
                                  !.log = log, !.entryAfter = cache[q.id]])
              ELSE IF content = None
              THEN Respond(p, [NoResp EXCEPT !.op = "get", !.id = q.id, !.code = 404,
                                  !.log = log, !.entryAfter = cache[q.id]])
              ELSE Continue(p, [q EXCEPT !.pc = "populate", !.got = content,
                                         !.log = log])
           /\ UNCHANGED <<config, storage, cache, cacheWorked>>

\* The text p read from storage has been replaced since, and no put on that
\* id is in flight: the cache delete of the put that replaced it is over.
LateSet(p) ==
    /\ req[p].got # storage[req[p].id]
    /\ \A o \in Procs \ {p} : ~(req[o].op = "put" /\ req[o].id = req[p].id)

\* Lines 367-376: set_in_cache with the default TTL, then the answer.
GetPopulate(p) ==
    \E out \in CallOutcomes :
        LET q == req[p]
            issued == cache_client # "None"
            log == [q.log EXCEPT !.cset = IF issued THEN Append(@, out) ELSE @]
            r == [NoResp EXCEPT !.op = "get", !.id = q.id, !.log = log,
                                !.late = LateSet(p)]
        IN /\ q.pc = "populate"
           /\ cache' = CacheAfterSet(cache, cache_client, q.id, q.got, CACHE_TTL, out)
           /\ cacheWorked' = (cacheWorked \/ (issued /\ out = "ok"))
           /\ IF set_in_cache(cache_client, out) = "raised"
              THEN Respond(p, [r EXCEPT !.code = 500, !.entryAfter = cache'[q.id]])
              ELSE Respond(p, [r EXCEPT !.code = 200, !.doc = q.got,
                                        !.entryAfter = cache'[q.id]])
           /\ UNCHANGED <<config, storage>>

\* ------------------------------------------------------------ health_check

\* GET /health, lines 285-299.
HealthCheck(p) ==
    \E probe \in CallOutcomes, ping \in CallOutcomes :
        LET storage_status == check_storage_health(STORAGE_TYPE, probe)
            cache_status == check_cache_health(CACHE_ENABLED, cache_client, ping)
            overall == Overall(storage_status, cache_status)
            status_code == HealthStatusCode(overall)
        IN /\ req[p].pc = "idle"
           /\ Respond(p, [NoResp EXCEPT !.op = "health", !.status = overall,
                             !.storage = storage_status, !.cache = cache_status,
                             !.status_code = status_code,
                             !.code = HealthHttpCode(status_code)])
           /\ UNCHANGED <<config, storage, cache, cacheWorked>>

\* ------------------------------------------------------------- environment

\* The cache drops the entry of id once its TTL has run out; an entry
\* without a TTL stays.
ExpireEntry(id) ==
    /\ cache[id] # NoEntry
    /\ cache[id].ttl > 0
    /\ cache' = [cache EXCEPT ![id] = NoEntry]
    /\ UNCHANGED <<config, storage, req, resp, mon, putOk, cacheWorked, written>>

CacheExpire == \E id \in Ids : ExpireEntry(id)

\* ----------------------------------------------------------- specification

\* One service process: its handlers run one after another.
Next ==
    \/ PutRequest("p1", Ids, WorkloadContents)
    \/ PutStore("p1")
    \/ PutInvalidate("p1")
    \/ GetRequest("p1", Ids)
    \/ GetRetrieve("p1")
    \/ GetPopulate("p1")
    \/ HealthCheck("p1")
    \/ CacheExpire

Spec == Init /\ [][Next]_vars

\* Requests with bodies around the size limit, on one id.
NextSize ==
    \/ PutRequest("p1", {1}, BoundaryContents)
    \/ PutStore("p1")
    \/ PutInvalidate("p1")
    \/ GetRequest("p1", {1})
    \/ GetRetrieve("p1")
    \/ GetPopulate("p1")
    \/ CacheExpire

SpecSize == Init /\ [][NextSize]_vars

\* Two service processes on the same backends, both working on watch, with
\* the history of stored texts kept: p1 writes and reads, p2 reads.
NextHist ==
    \/ PutRequest("p1", {watch}, WorkloadContents)
    \/ PutStore("p1")
    \/ PutInvalidate("p1")
    \/ \E p \in Procs : GetRequest(p, {watch})
    \/ \E p \in Procs : GetRetrieve(p)
    \/ \E p \in Procs : GetPopulate(p)
    \/ CacheExpire

SpecHist == InitHist /\ [][NextHist]_vars

\* p1 writes watch again and again while p2 reads it once; the calls of the
\* two requests interleave.
NextRace ==
    \/ PutRequest("p1", {watch}, {Hello, World})
    \/ PutStore("p1")
    \/ PutInvalidate("p1")
    \/ resp["p2"] = NoResp /\ GetRequest("p2", {watch})
    \/ GetRetrieve("p2")
    \/ GetPopulate("p2")
    \/ CacheExpire

SpecRace == InitHist /\ [][NextRace]_vars

\* One process working on watch, with a cache that does expire the entry of
\* watch once its TTL has run out.
NextTTL ==
    \/ PutRequest("p1", {watch}, {Hello, World})
    \/ PutStore("p1")
    \/ PutInvalidate("p1")
    \/ GetRequest("p1", {watch})
    \/ GetRetrieve("p1")
    \/ GetPopulate("p1")
    \/ CacheExpire

SpecTTL == Init /\ [][NextTTL]_vars /\ WF_vars(ExpireEntry(watch))

\* ------------------------------------------------------------------ claims

\* The completed get_document responses on the watched id.
WatchedGets == {p \in Procs : resp[p].op = "get" /\ resp[p].id = watch}

\* The outcome of the one call logged in l ("error" if none was issued).
Outcome(l) == IF l = <<>> THEN "error" ELSE l[1]

\* C1 as stated: once put_document(id, C) has answered 200 and no put of
\* another text on id has occurred since, every get_document(id) that answers
\* 200 returns C.
C1_AsStated ==
    \A p \in WatchedGets :
        (mon.c # None /\ resp[p].code = 200) => resp[p].doc = mon.c

\* C1 amended: the same, for a put whose cache delete did not fail (it
\* succeeded, or was skipped because there is no cache client).
C1_ReadYourWrite ==
    \A p \in WatchedGets :
        (mon.c # None /\ mon.inv /\ resp[p].code = 200) => resp[p].doc = mon.c

\* A read served from the cache after a committed write.
C1_Witness ==
    \E p \in WatchedGets :
        /\ mon.c # None /\ mon.inv
        /\ resp[p].code = 200
        /\ resp[p].log.cget = <<"ok">> /\ resp[p].log.sget = <<>>

\* C2 as stated, its last step: after put C1, get, put C2 (C1 # C2, both puts
\* answered 200), a get that answers 200 returns C2, not the stale C1.
C2_AsStated ==
    \A p \in WatchedGets :
        (resp[p].stage = 3 /\ resp[p].code = 200) => resp[p].doc = mon.c

\* C2 amended: when every cache and storage call of the requests succeeds,
\* the first get answers C1 and leaves C1 in the cache, the put of C2 leaves
\* no entry, and the second get misses the cache, reads storage and answers C2.
C2_InvalidateThenRepopulate ==
    \A p \in Procs :
        LET r == resp[p]
        IN (r.id = watch /\ mon.clean) =>
              /\ (r.op = "get" /\ r.stage = 1) =>
                    /\ r.code = 200 /\ r.doc = mon.c
                    /\ r.entryAfter = Entry(mon.c, CACHE_TTL)
              /\ (r.op = "put" /\ mon.stage = 3) =>
                    /\ r.code = 200
                    /\ r.entryAfter = NoEntry
              /\ (r.op = "get" /\ r.stage = 3) =>
                    /\ r.code = 200 /\ r.doc = mon.c
                    /\ r.log.cget = <<"ok">> /\ r.log.sget = <<"ok">>

\* The fourth request of the scenario has answered.
C2_Witness ==
    \E p \in WatchedGets :
        /\ resp[p].stage = 3 /\ mon.clean
        /\ resp[p].code = 200 /\ resp[p].doc = mon.c

\* What the service answers with storage alone (no cache layer).
StorageOnlyPut(t, c, out) ==
    IF ~DocumentRequestValid(c) THEN [code |-> 422, size |-> 0]
    ELSE IF c.chars > MAX_CONTENT_SIZE THEN [code |-> 400, size |-> 0]
    ELSE IF store_document(t, out) THEN [code |-> 200, size |-> c.chars]
    ELSE [code |-> 500, size |-> 0]

StorageOnlyGet(t, item, out) ==
    LET content == retrieve_document(t, item, out)
    IN IF content = None THEN [code |-> 404, doc |-> None]
       ELSE [code |-> 200, doc |-> content]

\* C3: while no cache call has succeeded (no cache client, or every cache
\* call raised), each put and get answers what storage alone would answer.
C3_CacheUnavailableTransparent ==
    \A p \in Procs :
        LET r == resp[p]
        IN ~cacheWorked =>
              /\ r.op = "put" =>
                    LET ref == StorageOnlyPut(STORAGE_TYPE, r.content,
                                              Outcome(r.log.sput))
                    IN r.code = ref.code /\ r.size = ref.size
              /\ r.op = "get" =>
                    LET ref == StorageOnlyGet(STORAGE_TYPE, storage[r.id],
                                              Outcome(r.log.sget))
                    IN r.code = ref.code /\ r.doc = ref.doc

\* A read answered from storage although the cache get and set both raised.
C3_Witness ==
    \E p \in Procs :
        /\ ~cacheWorked /\ cache_client = "redis"
        /\ resp[p].op = "get" /\ resp[p].code = 200
        /\ resp[p].log.cget = <<"error">> /\ resp[p].log.cset = <<"error">>

\* C4 as stated: on a cache miss, an error of the storage get is answered
\* with 500, and 404 only when the backend reports that there is no record.
C4_AsStated ==
    \A p \in Procs :
        LET r == resp[p]
        IN r.op = "get" =>
              /\ r.log.sget = <<"error">> => r.code = 500
              /\ r.code = 404 => r.log.sget = <<"ok">> /\ storage[r.id] = None

\* C5: get_document on an id no put_document has answered 200 for answers
\* 404, never 200.
C5_NotFound ==
    \A p \in Procs :
        (resp[p].op = "get" /\ resp[p].id \notin putOk) =>
            resp[p].code = 404 /\ resp[p].doc = None

\* A 404 on a never-written id while another id is stored and cached.
C5_Witness ==
    \E p \in Procs, other \in Ids :
        /\ resp[p].op = "get" /\ resp[p].id \notin putOk /\ resp[p].code = 404
        /\ other \in putOk /\ cache[other] # NoEntry
        /\ resp[p].log.sget = <<"ok">>

\* C6: when the storage put of put_document fails, the request answers 500,
\* has issued no cache call, and leaves the cache as it was.
C6_StorageFailureLeavesCache ==
    [][\A p \in Procs :
          (/\ req[p].pc = "store"
           /\ req'[p] # req[p]
           /\ req'[p].log.sput # <<"ok">>) =>
              /\ req'[p].pc = "idle"
              /\ resp'[p].op = "put" /\ resp'[p].code = 500
              /\ resp'[p].log.cget = <<>> /\ resp'[p].log.cset = <<>>
              /\ resp'[p].log.cdel = <<>>
              /\ cache' = cache]_vars

\* A failed write on an id that has a cache entry, which is still there.
C6_Witness ==
    \E p \in Procs :
        /\ resp[p].op = "put" /\ resp[p].code = 500
        /\ resp[p].log.sput = <<"error">>
        /\ resp[p].entryAfter # NoEntry
        /\ cache[resp[p].id] = resp[p].entryAfter

\* C7: whenever the storage put succeeded, put_document answers 200 "stored"
\* with size len(content), whatever the cache delete did.
C7_InvalidationNeverFailsWrite ==
    \A p \in Procs :
        (resp[p].op = "put" /\ resp[p].log.sput = <<"ok">>) =>
            /\ resp[p].code = 200
            /\ resp[p].status = "stored"
            /\ resp[p].size = resp[p].content.chars

\* A write answered 200 although its cache delete raised.
C7_Witness ==
    \E p \in Procs :
        /\ resp[p].op = "put" /\ resp[p].log.sput = <<"ok">>
        /\ resp[p].log.cdel = <<"error">>
        /\ resp[p].code = 200

\* C8: the overall status is "healthy" iff storage is ok and cache is ok or
\* disabled, else "unhealthy": for every pair of statuses, and in every
\* health report the service gives.
C8_HealthAggregation ==
    /\ \A s \in StorageStatuses, c \in CacheStatuses :
          Overall(s, c) =
             IF s = "ok" /\ (c = "ok" \/ c = "disabled")
             THEN "healthy" ELSE "unhealthy"
    /\ \A p \in Procs :
          resp[p].op = "health" =>
             /\ resp[p].status \in {"healthy", "unhealthy"}
             /\ resp[p].status = "healthy" <=>
                   (resp[p].storage = "ok" /\ resp[p].cache \in {"ok", "disabled"})

\* An unhealthy report with storage ok and the cache in error.
C8_Witness ==
    \E p \in Procs :
        /\ resp[p].op = "health"
        /\ resp[p].storage = "ok" /\ resp[p].cache = "error"
        /\ resp[p].status = "unhealthy"

\* C9 as stated: GET /health answers 200 exactly when the overall status is
\* healthy and 503 when it is unhealthy.
C9_AsStated ==
    \A p \in Procs :
        resp[p].op = "health" =>
            /\ resp[p].code \in {200, 503}
            /\ resp[p].code = 200 <=> resp[p].status = "healthy"
            /\ resp[p].status = "unhealthy" => resp[p].code = 503

\* C10 as stated: put_document accepts 1..102400 bytes and answers 400 to
\* 0 bytes and to more than 102400 bytes.
C10_AsStated ==
    \A p \in Procs :
        LET r == resp[p]
        IN r.op = "put" =>
              /\ (r.content.bytes >= 1 /\ r.content.bytes <= 102400) =>
                    r.code \in {200, 500}
              /\ r.content.bytes > 102400 => r.code = 400
              /\ r.content.bytes = 0 => r.code = 400

\* C11: a successful storage put of (id, C) leaves exactly C under id, whatever
\* was there (a repeat of the same C changes nothing), and leaves the records
\* of the other ids alone; the put then answers 200 with C still stored.
C11_IdempotentOverwrite ==
    [][\A p \in Procs :
          /\ (req[p].pc = "store" /\ req'[p].pc = "invalidate") =>
                /\ req'[p].log.sput = <<"ok">>
                /\ storage'[req[p].id] = req[p].content
                /\ \A j \in Ids \ {req[p].id} : storage'[j] = storage[j]
                /\ storage[req[p].id] = req[p].content => storage' = storage
          /\ (req[p].pc = "invalidate" /\ req'[p].pc = "idle") =>
                /\ storage' = storage
                /\ resp'[p].code = 200 => storage'[resp'[p].id] = resp'[p].content]_vars

\* The second of two successful writes of different texts has answered, and
\* storage holds its text while another id keeps its own record.
C11_Witness ==
    \E p \in Procs, other \in Ids :
        /\ resp[p].op = "put" /\ resp[p].id = watch /\ resp[p].code = 200
        /\ mon.stage = 3
        /\ storage[watch] = resp[p].content
        /\ other # watch /\ storage[other] # None /\ storage[other] # storage[watch]

\* C12 as stated: with STORAGE_TYPE "rds" every put_document and get_document
\* that reaches storage answers 5xx, never 200 and never 404 (the process only
\* runs with one of the three known backend names).
C12_AsStated ==
    /\ STORAGE_TYPE \in {"s3", "dynamodb", "rds"}
    /\ \A p \in Procs :
          LET r == resp[p]
          IN (STORAGE_TYPE = "rds" /\ r.op \in {"put", "get"}
                /\ r.code \notin {400, 422}) =>
                r.code >= 500 /\ r.code <= 599

\* The request process p has just begun or answered on this step.
Began(p) == req[p].pc = "idle" /\ (req'[p] # req[p] \/ resp'[p] # resp[p])

\* The request process p is handling, or has just answered, after this step.
Current(p) == IF req'[p].pc = "idle" THEN resp'[p] ELSE req'[p]

\* The put of p1 and the get of p2, both on watch, have completed and every
\* cache and storage call of the two requests succeeded.
RaceDone ==
    /\ req["p1"].pc = "idle" /\ req["p2"].pc = "idle"
    /\ resp["p1"].op = "put" /\ resp["p1"].id = watch /\ resp["p1"].code = 200
    /\ ReqClean(resp["p1"])
    /\ resp["p2"].op = "get" /\ resp["p2"].id = watch
    /\ ReqClean(resp["p2"])

\* C13 as stated: once a get_document(id) and a put_document(id, C2) whose
\* calls interleaved and all succeeded have completed, the cache holds for id
\* no entry or C2.
C13_AsStated ==
    RaceDone =>
        \/ cache[watch] = NoEntry
        \/ cache[watch].doc = resp["p1"].content

\* C13: once both have completed, storage holds C2 and the cache holds for id
\* no entry, or C2, or the older text the get read from storage before the
\* put replaced it and set in the cache after the put's cache delete.
C13_RaceLeavesCurrentOrLateSet ==
    RaceDone =>
        /\ storage[watch] = resp["p1"].content
        /\ \/ cache[watch] = NoEntry
           \/ cache[watch].doc = resp["p1"].content
           \/ /\ resp["p2"].late
              /\ resp["p2"].log.sget = <<"ok">>
              /\ resp["p2"].doc \in written \ {resp["p1"].content}
              /\ cache[watch] = Entry(resp["p2"].doc, CACHE_TTL)

\* Both completed, every call succeeded, and the cache is left with the text
\* the put replaced.
C13_Witness ==
    /\ RaceDone
    /\ resp["p2"].late
    /\ resp["p2"].code = 200
    /\ cache[watch].doc = resp["p2"].doc
    /\ cache[watch].doc # storage[watch]

\* C14: in every reachable state the text of every cache entry is one that an
\* earlier put_document stored successfully under the same id; the text of a
\* put whose storage put failed, and that no put stored, is not in the cache.
C14_CacheShadowsStoredContent ==
    /\ \A id \in Ids :
          cache[id] # NoEntry => id = watch /\ cache[id].doc \in written
    /\ storage[watch] # None => storage[watch] \in written
    /\ \A p \in Procs :
          (/\ resp[p].op = "put" /\ resp[p].log.sput = <<"error">>
           /\ resp[p].content \notin written) =>
              cache[resp[p].id].doc # resp[p].content

\* An entry of a stored text survives the failed put of a text never stored.
C14_Witness ==
    \E p \in Procs :
        /\ resp[p].op = "put" /\ resp[p].log.sput = <<"error">>
        /\ resp[p].content \notin written
        /\ cache[watch] # NoEntry
        /\ cache[watch].doc \in written

\* No put_document on watch is in flight.
NoPutOnWatch == \A p \in Procs : ~(req[p].op = "put" /\ req[p].id = watch)

\* Every get_document(watch) answered 200 on this step returns the text in
\* storage.
FreshAnswers ==
    \A p \in Procs :
        (/\ resp'[p].op = "get" /\ resp'[p].id = watch /\ resp'[p].code = 200
         /\ resp'[p] # resp[p] \/ cache' = cache) =>
            resp'[p].doc = storage'[watch]

\* C15: with a cache that expires every entry after its TTL, if from some
\* point on no put_document on id occurs, then from some point on every
\* get_document(id) that returns 200 returns the text in storage.
C15_StalenessBoundedByTTL ==
    (<>[]NoPutOnWatch) => <>[][FreshAnswers]_vars

\* A put answered 200 whose cache delete failed, leaving the older text in
\* the cache with its TTL running.
C15_Witness ==
    \E p \in Procs :
        /\ resp[p].op = "put" /\ resp[p].id = watch /\ resp[p].code = 200
        /\ resp[p].log.cdel = <<"error">>
        /\ cache[watch].ttl > 0
        /\ cache[watch].doc # resp[p].content
        /\ storage[watch] = resp[p].content

\* C16: when the cache get of get_document(id) returns content, the request
\* answers 200 with that content, issues no storage call and no cache set,
\* and leaves storage and cache unchanged.
C16_CacheHitNeverTouchesStorage ==
    [][\A p \in Procs :
          (/\ Began(p)
           /\ Current(p).op = "get"
           /\ Current(p).log.cget = <<"ok">>
           /\ Truthy(cache[Current(p).id].doc)) =>
              /\ req'[p].pc = "idle"
              /\ resp'[p].code = 200
              /\ resp'[p].doc = cache[resp'[p].id].doc
              /\ resp'[p].log.sget = <<>> /\ resp'[p].log.cset = <<>>
              /\ resp'[p].log.sput = <<>> /\ resp'[p].log.cdel = <<>>
              /\ storage' = storage /\ cache' = cache]_vars

\* A read answered from the cache while storage holds another text.
C16_Witness ==
    \E p \in Procs :
        /\ resp[p].op = "get" /\ resp[p].code = 200
        /\ resp[p].log.cget = <<"ok">> /\ resp[p].log.sget = <<>>
        /\ resp[p].doc = cache[resp[p].id].doc
        /\ resp[p].doc # storage[resp[p].id]

\* C17: when get_document(id) misses the cache, storage returns C and the
\* cache set succeeds, the cache holds id -> C with the default TTL when the
\* request answers 200 with C; and the next get_document(id) whose cache get
\* answers, with the entry still there, is served C from the cache.
C17_ReadMissPopulates ==
    [][\A p \in Procs :
          /\ (req[p].pc = "populate" /\ resp'[p].log.cset = <<"ok">>) =>
                /\ req[p].got = storage[req[p].id]
                /\ resp'[p].code = 200 /\ resp'[p].doc = req[p].got
                /\ cache'[req[p].id] = Entry(req[p].got, CACHE_TTL)
                /\ CACHE_TTL = 3600
          /\ (/\ Began(p)
              /\ resp[p].op = "get" /\ resp[p].log.cset = <<"ok">>
              /\ cache[resp[p].id] = resp[p].entryAfter
              /\ Current(p).op = "get" /\ Current(p).id = resp[p].id
              /\ Current(p).log.cget = <<"ok">>) =>
                /\ req'[p].pc = "idle"
                /\ resp'[p].code = 200 /\ resp'[p].doc = resp[p].doc
                /\ resp'[p].log.sget = <<>>]_vars

\* A read that found the cache empty and left the text there with its TTL.
C17_Witness ==
    \E p \in Procs :
        /\ resp[p].op = "get" /\ resp[p].code = 200
        /\ resp[p].log.cget = <<"ok">> /\ resp[p].log.sget = <<"ok">>
        /\ resp[p].log.cset = <<"ok">>
        /\ cache[resp[p].id] = Entry(resp[p].doc, CACHE_TTL)

\* C18: a get_document whose storage get finds no record or fails answers
\* without a cache set, and the cache is as it was.
C18_FailedReadNeverPopulates ==
    [][\A p \in Procs :
          (/\ req[p].pc = "retrieve"
           /\ req'[p] # req[p]
           /\ \/ storage[req[p].id] = None
              \/ Current(p).log.sget # <<"ok">>) =>
              /\ req'[p].pc = "idle"
              /\ resp'[p].code \in {404, 500}
              /\ resp'[p].doc = None
              /\ resp'[p].log.cset = <<>>
              /\ cache' = cache]_vars

\* A read that failed at storage on an id that is stored but not cached.
C18_Witness ==
    \E p \in Procs :
        /\ resp[p].op = "get" /\ resp[p].code = 404
        /\ resp[p].log.sget = <<"error">>
        /\ storage[resp[p].id] # None
        /\ cache[resp[p].id] = NoEntry

\* C19: a get_document whose cache get raised goes on to storage and answers
\* what storage alone would answer; one whose cache set raised answers 200
\* with the text read from storage.
C19_ReadPathAbsorbsCacheFailure ==
    \A p \in Procs :
        LET r == resp[p]
            ref == StorageOnlyGet(STORAGE_TYPE, storage[r.id], Outcome(r.log.sget))
        IN r.op = "get" =>
              /\ r.log.cget = <<"error">> =>
                    /\ RetrieveIssuesGet(STORAGE_TYPE) => Len(r.log.sget) = 1
                    /\ r.code = ref.code /\ r.doc = ref.doc
              /\ r.log.cset = <<"error">> =>
                    /\ r.log.sget = <<"ok">>
                    /\ r.code = 200 /\ r.doc = storage[r.id]

\* A read answered from storage, both cache calls having raised, on a cache
\* that has worked before.
C19_Witness ==
    \E p \in Procs :
        /\ cacheWorked
        /\ resp[p].op = "get" /\ resp[p].code = 200
        /\ resp[p].log.cget = <<"error">> /\ resp[p].log.cset = <<"error">>
        /\ resp[p].doc = storage[resp[p].id]

\* C20 as stated: a put_document whose content is empty or larger than
\* MAX_CONTENT_SIZE bytes is rejected before any storage or cache call, and leaves
\* storage and cache as they were.
C20_AsStated ==
    [][\A p \in Procs :
          (/\ Began(p)
           /\ Current(p).op = "put"
           /\ \/ Current(p).content.bytes = 0
              \/ Current(p).content.bytes > MAX_CONTENT_SIZE) =>
              /\ req'[p].pc = "idle"
              /\ resp'[p].code \in {400, 422}
              /\ resp'[p].log = NoLog
              /\ storage' = storage /\ cache' = cache]_vars

\* The calls a request may issue, each at most once: a put_document one
\* storage put and one cache delete, a get_document one cache get, one
\* storage get and one cache set.
AtMostOnce(r) ==
    /\ \A k \in {"sput", "sget", "cget", "cset", "cdel"} : Len(r.log[k]) <= 1
    /\ r.op = "put" => r.log.sget = <<>> /\ r.log.cget = <<>> /\ r.log.cset = <<>>
    /\ r.op = "get" => r.log.sput = <<>> /\ r.log.cdel = <<>>
    /\ r.op \notin {"put", "get"} => r.log = NoLog

\* The step on which a storage call of p failed ends p's request with an
\* error answer that carries that one attempt.
FailureSurfaced ==
    \A p \in Procs :
        /\ (/\ req[p].pc = "store" /\ req'[p] # req[p]
            /\ Current(p).log.sput # <<"ok">>) =>
               /\ req'[p].pc = "idle"
               /\ resp'[p].op = "put" /\ resp'[p].id = req[p].id
               /\ resp'[p].code = 500
               /\ Len(resp'[p].log.sput) <= 1 /\ resp'[p].log.cdel = <<>>
               /\ storage' = storage
        /\ (/\ req[p].pc = "retrieve" /\ req'[p] # req[p]
            /\ Current(p).log.sget # <<"ok">>) =>
               /\ req'[p].pc = "idle"
               /\ resp'[p].op = "get" /\ resp'[p].id = req[p].id
               /\ resp'[p].code \in {404, 500}
               /\ Len(resp'[p].log.sget) <= 1 /\ resp'[p].log.cset = <<>>

\* C21: every put_document issues at most one storage put and one cache
\* delete, every get_document at most one cache get, one storage get and one
\* cache set, whether in flight or answered; and a failed storage call ends
\* the request on that step with an error answer, without a second attempt.
C21_NoInternalRetries ==
    /\ [](\A p \in Procs : AtMostOnce(req[p]) /\ AtMostOnce(resp[p]))
    /\ [][FailureSurfaced]_vars

\* A put answered 500 after its single storage put failed, the text not in
\* storage.
C21_Witness ==
    \E p \in Procs :
        /\ resp[p].op = "put" /\ resp[p].code = 500
        /\ Len(resp[p].log.sput) = 1 /\ resp[p].log.sput[1] = "error"
        /\ resp[p].log.cdel = <<>>
        /\ storage[resp[p].id] # resp[p].content

\* Caching is enabled and the startup ping failed: lines 77-79 left no handle.
StartupPingFailed == CACHE_ENABLED /\ cache_client = "None"

\* What a process without a cache handle does: no cache call is issued, a
\* get is answered from storage, the cache is left alone, and the health
\* report says cache "unavailable", overall "unhealthy".
WithoutHandle ==
    /\ cache_client = "None"
    /\ \A e \in {cache[i] : i \in Ids} \cup {Entry(Hello, CACHE_TTL)},
          out \in CallOutcomes :
          /\ get_from_cache(cache_client, e, out) = None
          /\ set_in_cache(cache_client, out) = "False"
          /\ invalidate_cache(cache_client, out) = "None"
          /\ \A i \in Ids :
                /\ CacheAfterSet(cache, cache_client, i, Hello, CACHE_TTL, out) = cache
                /\ CacheAfterInvalidate(cache, cache_client, i, out) = cache
    /\ cache = [i \in Ids |-> NoEntry]
    /\ \A p \in Procs :
          LET r == resp[p]
          IN /\ r.log.cget = <<>> /\ r.log.cset = <<>> /\ r.log.cdel = <<>>
             /\ req[p].log.cget = <<>> /\ req[p].log.cset = <<>>
             /\ req[p].log.cdel = <<>>
             /\ (r.op = "get" /\ r.code = 200) =>
                   r.log.sget = <<"ok">> /\ r.doc = storage[r.id]
             /\ r.op = "health" =>
                   r.cache = "unavailable" /\ r.status = "unhealthy"

\* C22: when the startup ping failed with caching enabled, the process runs
\* and in every later state has no cache handle; every cache get is a miss,
\* every set and delete does nothing, and every health report says cache
\* "unavailable" and overall "unhealthy".
C22_UnreachableCacheStaysUnreachable ==
    StartupPingFailed => []WithoutHandle

\* After a put and a health report, in a process whose startup ping failed:
\* storage ok, cache unavailable, overall unhealthy.
C22_Witness ==
    \E p \in Procs :
        /\ StartupPingFailed
        /\ putOk # {}
        /\ resp[p].op = "health"
        /\ resp[p].storage = "ok" /\ resp[p].cache = "unavailable"
        /\ resp[p].status = "unhealthy"

====
